---- MODULE Spec2Model ----
(***************************************************************************)
(* A model of the Dixmont tax map viewer's ingestion pipeline (src/app.py):*)
(* the KML description parser, the KML document parser, the KMZ archive    *)
(* reader and the data source resolver with its provenance record          *)
(* data_source_info and its cache file parcels.geojson.                    *)
(*                                                                         *)
(* Texts are TLA+ strings.  Python's None is the text None below, which no *)
(* input text of the model equals.  A dict is a function from its keys; a  *)
(* dict whose iteration order matters (KMLDescriptionParser.data) is a     *)
(* sequence of <<key, value>> pairs in insertion order.                    *)
(***************************************************************************)
EXTENDS Integers, Sequences, FiniteSets, TLC

None == "<None>"

\* Python truthiness of an optional text: neither None nor ''.
Truthy(t) == t # None /\ t # ""

IsSpace(c) == c \in {" ", "\t", "\n", "\r"}

RECURSIVE LStrip(_)
LStrip(s) ==
    IF Len(s) = 0 THEN s
    ELSE IF IsSpace(SubSeq(s, 1, 1)) THEN LStrip(SubSeq(s, 2, Len(s)))
    ELSE s

RECURSIVE RStrip(_)
RStrip(s) ==
    IF Len(s) = 0 THEN s
    ELSE IF IsSpace(SubSeq(s, Len(s), Len(s))) THEN RStrip(SubSeq(s, 1, Len(s) - 1))
    ELSE s

\* str.strip()
Strip(s) == RStrip(LStrip(s))

\* str.endswith(suffix)
EndsWith(s, suffix) ==
    /\ Len(s) >= Len(suffix)
    /\ SubSeq(s, Len(s) - Len(suffix) + 1, Len(s)) = suffix

\* sub in s
Contains(s, sub) ==
    \E i \in 1..(Len(s) + 1) :
        /\ i + Len(sub) - 1 <= Len(s)
        /\ SubSeq(s, i, i + Len(sub) - 1) = sub

\* dict.get(key, default)
Get(d, key, default) == IF key \in DOMAIN d THEN d[key] ELSE default

\* d[key] = value
Put(d, key, value) == [k \in (DOMAIN d) \cup {key} |-> IF k = key THEN value ELSE d[k]]

\* d.update(e)
Update(d, e) == [k \in (DOMAIN d) \cup (DOMAIN e) |-> IF k \in DOMAIN e THEN e[k] ELSE d[k]]

EmptyDict == [k \in {} |-> None]

\* d[key] = value on an insertion-ordered dict: an existing key keeps its place.
PutOrdered(d, key, value) ==
    IF \E i \in 1..Len(d) : d[i][1] = key
    THEN [i \in 1..Len(d) |-> IF d[i][1] = key THEN <<key, value>> ELSE d[i]]
    ELSE Append(d, <<key, value>>)

(***************************************************************************)
(* KMLDescriptionParser: the HTML description as the sequence of events    *)
(* html.parser feeds to the handlers.  An event is [ev, tag, arg]:         *)
(* ev = "start" (arg: the style attribute, '' when absent, None when the   *)
(* attribute has no value, as in <tr style>), "end", or "data" (arg: the   *)
(* text).                                                                  *)
(***************************************************************************)
ParserInit ==
    [data |-> <<>>, in_td |-> FALSE, td_count |-> 0, row_data |-> <<>>,
     owner_from_header |-> None, in_header_row |-> FALSE]

\* handle_starttag with the header flag only ever set, never cleared.
StickyHeaderStartTag(p, tag, style) ==
    IF tag = "td" THEN [p EXCEPT !.in_td = TRUE, !.td_count = @ + 1]
    ELSE IF tag = "tr" THEN
        [p EXCEPT !.row_data = <<>>, !.td_count = 0,
                  !.in_header_row = @ \/ Contains(style, "font-weight:bold")
                                      \/ Contains(style, "text-align:center")]
    ELSE p

handle_starttag(p, tag, style) ==
    IF tag = "td" THEN [p EXCEPT !.in_td = TRUE, !.td_count = @ + 1]
    ELSE IF tag = "tr" THEN
        [p EXCEPT !.row_data = <<>>, !.td_count = 0,
                  !.in_header_row = Contains(style, "font-weight:bold")
                                    \/ Contains(style, "text-align:center")]
    ELSE p

handle_endtag(p, tag) ==
    IF tag = "td" THEN [p EXCEPT !.in_td = FALSE]
    ELSE IF tag = "tr" THEN
        IF Len(p.row_data) = 2 THEN
            IF p.row_data[1] # "" /\ p.row_data[2] # ""
            THEN [p EXCEPT !.data = PutOrdered(@, Strip(p.row_data[1]), Strip(p.row_data[2])),
                           !.row_data = <<>>]
            ELSE [p EXCEPT !.row_data = <<>>]
        ELSE IF Len(p.row_data) = 1 /\ p.in_header_row THEN
            [p EXCEPT !.owner_from_header = Strip(p.row_data[1]), !.row_data = <<>>]
        ELSE [p EXCEPT !.row_data = <<>>]
    ELSE p

handle_data(p, data) ==
    IF p.in_td /\ Strip(data) # "" THEN [p EXCEPT !.row_data = Append(@, Strip(data))]
    ELSE p

HandleEvent(p, e) ==
    IF e.ev = "start" THEN handle_starttag(p, e.tag, e.arg)
    ELSE IF e.ev = "end" THEN handle_endtag(p, e.tag)
    ELSE handle_data(p, e.arg)

\* parser.feed(html_content)
RECURSIVE Feed(_, _)
Feed(p, events) ==
    IF events = <<>> THEN p ELSE Feed(HandleEvent(p, Head(events)), Tail(events))

key_mapping ==
    [k \in {"Owner", "owner", "OWNER", "MapBkLot", "TRMapBkLot", "Map_Lot", "MAP_LOT",
            "GISAcres", "TRIOAcres", "Acres", "ACRES", "LandValue", "Land_Value",
            "LAND_VALUE", "BldgValue", "Bldg_Value", "BLDG_VALUE", "TotalValue",
            "Total_Value", "TOTAL_VALUE", "Street", "STREET", "StNumber", "Account",
            "Town", "County", "Year_Built", "BldgStyle", "NetAssess", "Exemption"} |->
        CASE k \in {"Owner", "owner", "OWNER"} -> "Owner"
          [] k \in {"MapBkLot", "TRMapBkLot", "Map_Lot", "MAP_LOT"} -> "MapLot"
          [] k \in {"GISAcres", "TRIOAcres", "Acres", "ACRES"} -> "Acres"
          [] k \in {"LandValue", "Land_Value", "LAND_VALUE"} -> "LandValue"
          [] k \in {"BldgValue", "Bldg_Value", "BLDG_VALUE"} -> "BldgValue"
          [] k \in {"TotalValue", "Total_Value", "TOTAL_VALUE"} -> "TotalValue"
          [] k \in {"Street", "STREET"} -> "Street"
          [] k = "Year_Built" -> "YearBuilt"
          [] OTHER -> k]

\* The loop of get_properties over self.data.items(), in insertion order.
RECURSIVE NormalizeItems(_, _)
NormalizeItems(props, items) ==
    IF items = <<>> THEN props
    ELSE NormalizeItems(Put(props, Get(key_mapping, Head(items)[1], Head(items)[1]),
                            Head(items)[2]),
                        Tail(items))

\* Lines 121-123 without the test for an Owner key.
OwnerFallbackAlways(props, owner_from_header) ==
    IF Truthy(owner_from_header) THEN Put(props, "Owner", owner_from_header) ELSE props

\* Lines 121-123: the owner taken from a header row, when no key gave one.
OwnerFallback(props, owner_from_header) ==
    IF "Owner" \notin DOMAIN props /\ Truthy(owner_from_header)
    THEN Put(props, "Owner", owner_from_header)
    ELSE props

get_properties(p) == OwnerFallback(NormalizeItems(EmptyDict, p.data), p.owner_from_header)

\* Line 54: 'font-weight:bold' in style raises TypeError when the style
\* attribute of a row has no value (attrs_dict.get returns None).
StartTagRaises(tag, style) == tag = "tr" /\ style = None

\* Whether parser.feed raises on the events.
FeedRaises(events) ==
    \E i \in 1..Len(events) :
        events[i].ev = "start" /\ StartTagRaises(events[i].tag, events[i].arg)

\* A description text that is None or '' is the empty event sequence.  An
\* exception of parser.feed is caught and gives {} (lines 137-139).
parse_html_description(html_content) ==
    IF html_content = <<>> \/ FeedRaises(html_content) THEN EmptyDict
    ELSE get_properties(Feed(ParserInit, html_content))

(***************************************************************************)
(* Coordinates.  A float is held in tenths (float("44.5") is 445), and the *)
(* coordinate texts of the model carry at most one fractional digit.       *)
(* IsFloat accepts [sign] digits [. digits] around optional whitespace,    *)
(* with at least one digit, as float() does for such texts.                *)
(***************************************************************************)
DigitChars == "0123456789"

IsDigit(c) == \E i \in 1..Len(DigitChars) : SubSeq(DigitChars, i, i) = c

DigitVal(c) == (CHOOSE i \in 1..Len(DigitChars) : SubSeq(DigitChars, i, i) = c) - 1

AllDigits(s) == \A i \in 1..Len(s) : IsDigit(SubSeq(s, i, i))

\* The index of the first character c of s, or 0.
IndexOf(s, c) ==
    IF \E i \in 1..Len(s) : SubSeq(s, i, i) = c
    THEN CHOOSE i \in 1..Len(s) :
            /\ SubSeq(s, i, i) = c
            /\ \A j \in 1..(i - 1) : SubSeq(s, j, j) # c
    ELSE 0

Unsigned(s) ==
    IF Len(s) > 0 /\ SubSeq(s, 1, 1) \in {"-", "+"} THEN SubSeq(s, 2, Len(s)) ELSE s

IntPart(s) == IF IndexOf(s, ".") = 0 THEN s ELSE SubSeq(s, 1, IndexOf(s, ".") - 1)

FracPart(s) == IF IndexOf(s, ".") = 0 THEN "" ELSE SubSeq(s, IndexOf(s, ".") + 1, Len(s))

\* Whether the unsigned text u is digits [. digits] with at least one digit.
IsNumeral(u) ==
    /\ AllDigits(IntPart(u))
    /\ AllDigits(FracPart(u))
    /\ Len(IntPart(u)) + Len(FracPart(u)) > 0

\* Whether float(s) returns (TRUE) or raises ValueError (FALSE).
IsFloat(s) == IsNumeral(Unsigned(Strip(s)))

RECURSIVE DigitsValue(_)
DigitsValue(s) ==
    IF Len(s) = 0 THEN 0
    ELSE 10 * DigitsValue(SubSeq(s, 1, Len(s) - 1)) + DigitVal(SubSeq(s, Len(s), Len(s)))

\* The first fractional digit of the fraction text f (0 when there is none).
Tenths(f) == IF Len(f) = 0 THEN 0 ELSE DigitVal(SubSeq(f, 1, 1))

\* The value of the unsigned numeral u, in tenths.
Magnitude(u) == 10 * DigitsValue(IntPart(u)) + Tenths(FracPart(u))

\* The value of the stripped numeral t, in tenths.
SignedValue(t) ==
    IF Len(t) > 0 /\ SubSeq(t, 1, 1) = "-" THEN 0 - Magnitude(Unsigned(t))
    ELSE Magnitude(Unsigned(t))

\* float(s), in tenths.
Float(s) == SignedValue(Strip(s))

\* str.split(sep) for a one-character separator: empty pieces are kept.
RECURSIVE SplitOn(_, _)
SplitOn(s, sep) ==
    IF IndexOf(s, sep) = 0 THEN <<s>>
    ELSE <<SubSeq(s, 1, IndexOf(s, sep) - 1)>>
         \o SplitOn(SubSeq(s, IndexOf(s, sep) + 1, Len(s)), sep)

\* The length of the whitespace-free prefix of s.
RECURSIVE WordLen(_)
WordLen(s) ==
    IF Len(s) = 0 \/ IsSpace(SubSeq(s, 1, 1)) THEN 0
    ELSE 1 + WordLen(SubSeq(s, 2, Len(s)))

\* str.split(): the maximal whitespace-free pieces.  SplitWords splits a
\* text that does not begin with whitespace.
RECURSIVE SplitWhitespace(_)
RECURSIVE SplitWords(_)
SplitWords(t) ==
    IF Len(t) = 0 THEN <<>>
    ELSE <<SubSeq(t, 1, WordLen(t))>> \o SplitWhitespace(SubSeq(t, WordLen(t) + 1, Len(t)))

SplitWhitespace(s) == SplitWords(LStrip(s))

\* Lines 288-294: what one token appends to coords.  float() raising
\* ValueError and parts[1] raising IndexError are both caught, and the token
\* is skipped.
TokenCoordinates(parts) ==
    IF Len(parts) >= 2 /\ IsFloat(parts[1]) /\ IsFloat(parts[2])
    THEN <<<<Float(parts[1]), Float(parts[2])>>>>
    ELSE <<>>

\* parse_coordinates with the loop left at the first token it cannot convert.
RECURSIVE ParseTokensAborting(_)
ParseTokensAborting(tokens) ==
    IF tokens = <<>> \/ TokenCoordinates(SplitOn(Head(tokens), ",")) = <<>> THEN <<>>
    ELSE TokenCoordinates(SplitOn(Head(tokens), ",")) \o ParseTokensAborting(Tail(tokens))

RECURSIVE ParseTokens(_)
ParseTokens(tokens) ==
    IF tokens = <<>> THEN <<>>
    ELSE TokenCoordinates(SplitOn(Head(tokens), ",")) \o ParseTokens(Tail(tokens))

parse_coordinates(coord_string) == ParseTokens(SplitWhitespace(Strip(coord_string)))

(***************************************************************************)
(* A Placemark element:                                                    *)
(*   name         the text of its kml:name child (None when absent)        *)
(*   description  the events of its kml:description text (<<>> when the    *)
(*                element is absent or its text is None or '')             *)
(*   data         the kml:Data children of its ExtendedData, each          *)
(*                [key, has_value, text]: the name attribute, whether a    *)
(*                kml:value child exists, and that child's text            *)
(*   simple_data  the kml:SimpleData descendants, each [key, text]         *)
(*   geom         its geometry children in document order, each            *)
(*                [kind, coords, children]: coords is the text of the      *)
(*                coordinates element the code looks up (None when there   *)
(*                is none), children the elements nested in a              *)
(*                MultiGeometry                                            *)
(* A geometry is [type, coordinates]; coordinates is held at the nesting   *)
(* depth of a MultiPolygon for every type (a Point [lon, lat] is           *)
(* <<<<<<lon, lat>>>>>>, a LineString c is <<<<c>>>>... see the builders). *)
(***************************************************************************)
NoGeometry == [type |-> "None", coordinates |-> <<>>]

PointGeometry(lon, lat) == [type |-> "Point", coordinates |-> << << <<lon, lat>> >> >>]

LineStringGeometry(c) == [type |-> "LineString", coordinates |-> << <<c>> >>]

PolygonGeometry(ring) == [type |-> "Polygon", coordinates |-> << <<ring>> >>]

\* [g['coordinates'] for g in geometries], each g a Polygon
MultiPolygonGeometry(geometries) ==
    [type |-> "MultiPolygon",
     coordinates |-> [i \in 1..Len(geometries) |-> geometries[i].coordinates[1]]]

NoElement == [kind |-> "None", coords |-> None, children |-> <<>>]

\* The geometry elements below a Placemark, in document order.
RECURSIVE Descendants(_)
Descendants(elems) ==
    IF elems = <<>> THEN <<>>
    ELSE <<Head(elems)>> \o Descendants(Head(elems).children) \o Descendants(Tail(elems))

\* element.findall('.//kml:<kind>')
FindAll(elems, kind) == SelectSeq(Descendants(elems), LAMBDA e : e.kind = kind)

\* element.find('.//kml:<kind>')
Find(elems, kind) ==
    IF FindAll(elems, kind) = <<>> THEN NoElement ELSE Head(FindAll(elems, kind))

\* Lines 171-174: the name element.
PropsAfterName(pm) ==
    IF Truthy(pm.name) THEN Put(Put(EmptyDict, "name", pm.name), "MapLot", pm.name)
    ELSE EmptyDict

\* Lines 177-181: the description.
PropsAfterDescription(pm) ==
    IF pm.description # <<>>
    THEN Update(PropsAfterName(pm), parse_html_description(pm.description))
    ELSE PropsAfterName(pm)

\* Lines 189-193: the Data entries.
RECURSIVE ApplyData(_, _)
ApplyData(props, data) ==
    IF data = <<>> THEN props
    ELSE ApplyData(IF Truthy(Head(data).key) /\ Head(data).has_value
                   THEN Put(props, Head(data).key, Head(data).text)
                   ELSE props,
                   Tail(data))

\* Lines 196-199: the SimpleData entries.
RECURSIVE ApplySimpleData(_, _)
ApplySimpleData(props, simple) ==
    IF simple = <<>> THEN props
    ELSE ApplySimpleData(IF Truthy(Head(simple).key) /\ Truthy(Head(simple).text)
                         THEN Put(props, Head(simple).key, Head(simple).text)
                         ELSE props,
                         Tail(simple))

\* Lines 187-199: ExtendedData is read whether or not a description exists.
PropsAfterExtendedData(pm) ==
    ApplySimpleData(ApplyData(PropsAfterDescription(pm), pm.data), pm.simple_data)

\* Lines 202-203: name falls back to MapLot.
NameFromMapLot(props) ==
    IF ~Truthy(Get(props, "name", None)) /\ Truthy(Get(props, "MapLot", None))
    THEN Put(props, "name", props["MapLot"])
    ELSE props

\* Lines 170-203: the properties of the Feature.
BuildProperties(pm) == NameFromMapLot(PropsAfterExtendedData(pm))

\* 'coords_elem is not None and coords_elem.text' for the coordinates of elem.
HasCoordinates(elem) == elem # NoElement /\ Truthy(elem.coords)

\* Lines 206-214: what the Polygon check leaves in feature['geometry'].
GeometryAfterPolygon(polygon, geometry) ==
    IF HasCoordinates(polygon) THEN PolygonGeometry(parse_coordinates(polygon.coords))
    ELSE geometry

\* Line 221: coords_elem.text.strip().split(',')
PointParts(point) == SplitOn(Strip(point.coords), ",")

\* Lines 217-225: whether float(coords[0]) or float(coords[1]) raises
\* (ValueError, or IndexError for fewer than two parts).
PointRaises(point) ==
    /\ HasCoordinates(point)
    /\ \/ Len(PointParts(point)) < 2
       \/ ~IsFloat(PointParts(point)[1])
       \/ ~IsFloat(PointParts(point)[2])

\* Lines 217-225, when nothing raises.
GeometryAfterPoint(point, geometry) ==
    IF HasCoordinates(point)
    THEN PointGeometry(Float(PointParts(point)[1]), Float(PointParts(point)[2]))
    ELSE geometry

\* Lines 228-236.
GeometryAfterLineString(linestring, geometry) ==
    IF HasCoordinates(linestring)
    THEN LineStringGeometry(parse_coordinates(linestring.coords))
    ELSE geometry

\* Lines 243-249: one Polygon geometry per nested Polygon with coordinates.
PolygonGeometries(polygons) ==
    [i \in 1..Len(polygons) |-> PolygonGeometry(parse_coordinates(polygons[i].coords))]

\* Lines 241-249: the Polygons nested in the first MultiGeometry.
MultiGeometries(multi_geom) ==
    PolygonGeometries(SelectSeq(FindAll(multi_geom.children, "Polygon"),
                                LAMBDA e : Truthy(e.coords)))

\* Lines 239-257.
GeometryAfterMultiGeometry(multi_geom, geometries, geometry) ==
    IF multi_geom # NoElement /\ geometries # <<>>
    THEN IF Len(geometries) = 1 THEN geometries[1] ELSE MultiPolygonGeometry(geometries)
    ELSE geometry

\* Lines 205-257: the four checks run one after the other, each on what the
\* one before left; the last one that produces a geometry decides.
ExtractGeometry(pm) ==
    GeometryAfterMultiGeometry(
        Find(pm.geom, "MultiGeometry"),
        MultiGeometries(Find(pm.geom, "MultiGeometry")),
        GeometryAfterLineString(
            Find(pm.geom, "LineString"),
            GeometryAfterPoint(
                Find(pm.geom, "Point"),
                GeometryAfterPolygon(Find(pm.geom, "Polygon"), NoGeometry))))

\* Lines 263-264: .strip() of a property that is None raises AttributeError.
FilterRaises(props) ==
    \/ Get(props, "name", "") = None
    \/ Get(props, "Owner", "") = None

\* Lines 267-274 on the stripped name and owner: the two conditions under
\* which a Feature with a geometry is skipped.  name is stripped, so it
\* never equals ' '.
SkipsNamed(name, owner) ==
    \/ name = "" /\ owner = ""
    \/ name \in {"", " ", "UNK", "ROW"}

\* Lines 262-274.
FilterSkips(props) ==
    SkipsNamed(Strip(Get(props, "name", "")), Strip(Get(props, "Owner", "")))

\* Lines 259-276: one pass of the loop body after the geometry checks;
\* `appended` is what features.append adds.
FilterFeature(props, geometry) ==
    IF geometry = NoGeometry THEN [raised |-> FALSE, appended |-> <<>>]
    ELSE IF FilterRaises(props) THEN [raised |-> TRUE, appended |-> <<>>]
    ELSE IF FilterSkips(props) THEN [raised |-> FALSE, appended |-> <<>>]
    ELSE [raised |-> FALSE, appended |-> <<[properties |-> props, geometry |-> geometry]>>]

\* Lines 164-276: the loop body for one Placemark.  An exception raised by
\* the Point check leaves before the filter is reached.
PlacemarkStep(pm) ==
    IF PointRaises(Find(pm.geom, "Point")) THEN [raised |-> TRUE, appended |-> <<>>]
    ELSE FilterFeature(BuildProperties(pm), ExtractGeometry(pm))

(***************************************************************************)
(* parse_kml.  A document is [wellformed, placemarks]: whether             *)
(* ET.fromstring accepts the XML, and its Placemark elements in document   *)
(* order (root.findall finds them at any depth).  The result is            *)
(* [raised, features]: an exception other than ET.ParseError leaves        *)
(* parse_kml (raised = TRUE), and the features built so far are lost.      *)
(***************************************************************************)
RECURSIVE LoopPlacemarks(_, _)
RECURSIVE AfterPlacemark(_, _, _)
\* Line 163: the loop, with `appended` the list features so far.
LoopPlacemarks(appended, placemarks) ==
    IF placemarks = <<>> THEN [raised |-> FALSE, features |-> appended]
    ELSE AfterPlacemark(appended, PlacemarkStep(Head(placemarks)), Tail(placemarks))

AfterPlacemark(appended, step, rest) ==
    IF step.raised THEN [raised |-> TRUE, features |-> <<>>]
    ELSE LoopPlacemarks(appended \o step.appended, rest)

parse_kml(kml_content) ==
    IF ~kml_content.wellformed THEN [raised |-> FALSE, features |-> <<>>]
    ELSE LoopPlacemarks(<<>>, kml_content.placemarks)

\* Lines 308-310: the loop over kml_files; `extended` is the list features
\* after the extend calls so far.  An exception of parse_kml (or of kmz.read,
\* for an entry that is not readable) ends the loop; what was added stays.
RECURSIVE ReadEntries(_, _)
RECURSIVE AfterEntry(_, _, _)
ReadEntries(extended, kml_files) ==
    IF kml_files = <<>> THEN extended
    ELSE IF ~Head(kml_files).readable THEN extended
    ELSE AfterEntry(extended, parse_kml(Head(kml_files).content), Tail(kml_files))

AfterEntry(extended, parsed, rest) ==
    IF parsed.raised THEN extended ELSE ReadEntries(extended \o parsed.features, rest)

(***************************************************************************)
(* parse_kmz / parse_kmz_bytes.  An archive is [valid_zip, entries]:       *)
(* whether zipfile.ZipFile opens it, and its entries in namelist() order,  *)
(* each [name, readable, content].  Both functions catch every exception   *)
(* and return the features collected so far.                               *)
(***************************************************************************)
parse_kmz(kmz) ==
    IF ~kmz.valid_zip THEN <<>>
    ELSE ReadEntries(<<>>, SelectSeq(kmz.entries, LAMBDA f : EndsWith(f.name, ".kml")))

parse_kmz_bytes(kmz_bytes) ==
    IF ~kmz_bytes.valid_zip THEN <<>>
    ELSE ReadEntries(<<>>, SelectSeq(kmz_bytes.entries, LAMBDA f : EndsWith(f.name, ".kml")))

(***************************************************************************)
(* The inputs of the model: a few Placemarks, documents and archives.      *)
(***************************************************************************)
Ring == "-69.1,44.9,0 -69.2,44.8,0 -69.2,44.9,0"

PolygonElement == [kind |-> "Polygon", coords |-> Ring, children |-> <<>>]

PointElement(text) == [kind |-> "Point", coords |-> text, children |-> <<>>]

Pm(name, data, geom) ==
    [name |-> name, description |-> <<>>, data |-> data, simple_data |-> <<>>, geom |-> geom]

OwnerData(text) == <<[key |-> "Owner", has_value |-> TRUE, text |-> text]>>

\* <table><tr><td>Owner</td><td>John Roe</td></tr></table>
OwnerTable ==
    <<[ev |-> "start", tag |-> "table", arg |-> ""],
      [ev |-> "start", tag |-> "tr", arg |-> ""],
      [ev |-> "start", tag |-> "td", arg |-> ""],
      [ev |-> "data", tag |-> "", arg |-> "Owner"],
      [ev |-> "end", tag |-> "td", arg |-> ""],
      [ev |-> "start", tag |-> "td", arg |-> ""],
      [ev |-> "data", tag |-> "", arg |-> "John Roe"],
      [ev |-> "end", tag |-> "td", arg |-> ""],
      [ev |-> "end", tag |-> "tr", arg |-> ""],
      [ev |-> "end", tag |-> "table", arg |-> ""]>>

PmLotA == Pm("12-34", OwnerData("Jane Doe"), <<PolygonElement>>)
PmLotB == Pm("12-35", <<>>, <<PolygonElement>>)
PmRoad == Pm("ROW", OwnerData("Town"), <<PolygonElement>>)
PmUnknown == Pm(" UNK ", <<>>, <<PolygonElement>>)
PmBlank == Pm(" ", OwnerData(" "), <<PolygonElement>>)
PmOwnerOnly == Pm(None, OwnerData("Jane Doe"), <<PolygonElement>>)
PmNoGeometry == Pm("12-36", OwnerData("Jane Doe"), <<>>)
PmPoint == Pm("12-37", <<>>, <<PointElement("-69.1,44.9,0")>>)
\* <Point><coordinates>abc</coordinates></Point>
PmBadPoint == Pm("12-38", <<>>, <<PointElement("abc")>>)
\* <Data name="Owner"><value/></Data>: the text of the value element is None
PmEmptyValue == Pm("12-39", OwnerData(None), <<PolygonElement>>)
PmDescribed == [PmLotB EXCEPT !.name = "12-40", !.description = OwnerTable]

Doc(placemarks) == [wellformed |-> TRUE, placemarks |-> placemarks]

MalformedDoc == [wellformed |-> FALSE, placemarks |-> <<>>]

Entry(name, content) == [name |-> name, readable |-> TRUE, content |-> content]

Kmz(entries) == [valid_zip |-> TRUE, entries |-> entries]

NotAZip == [valid_zip |-> FALSE, entries |-> <<>>]

KmzNoParcels == Kmz(<<Entry("doc.kml", Doc(<<PmRoad>>))>>)
KmzOneParcel == Kmz(<<Entry("doc.kml", Doc(<<PmLotA>>))>>)
KmzTwoParcels == Kmz(<<Entry("doc.kml", Doc(<<PmLotA, PmRoad>>)), Entry("more.kml", Doc(<<PmLotB>>))>>)

(***************************************************************************)
(* The data source resolver.                                               *)
(*   data_source_info  the module-level dict (lines 22-27); loaded_at is   *)
(*                     a clock reading, NoTime for None                    *)
(*   geojson_file      the cache file parcels.geojson: [state, features],  *)
(*                     state "absent", "valid" (json.load returns the      *)
(*                     FeatureCollection of these features: json.dump and  *)
(*                     json.load map the texts, numbers, lists and None of *)
(*                     a Feature to themselves) or "corrupt" (the file     *)
(*                     exists and reading it raises: unreadable, or not    *)
(*                     valid JSON, as a write that fails midway leaves it) *)
(*   data_dir          whether DATA_DIR exists ("present" or "missing")    *)
(*   now               the clock datetime.now() reads; it advances when a  *)
(*                     request arrives                                     *)
(*   pc, route, features, result, pass   per request thread: the place in  *)
(*                     the handler, the handler, the local variable        *)
(*                     features, what the handler's load_geojson_data call *)
(*                     produced, and which steps the pass took             *)
(*   document, archive, parse_result   the input and result of the parser  *)
(*                     specifications below                                *)
(*   call, answer      the argument and the return value of a function     *)
(*                     called on its own (parse_coordinates,               *)
(*                     get_geometry_center, the geometry and property      *)
(*                     steps of parse_kml, KMLDescriptionParser)           *)
(***************************************************************************)
VARIABLES data_source_info, geojson_file, data_dir, now, pc, route, features, result, pass,
          document, archive, parse_result, call, answer

resolver_vars == <<data_source_info, geojson_file, data_dir, now, pc, route, features, result, pass>>
parser_vars == <<document, archive, parse_result, call, answer>>
vars == <<data_source_info, geojson_file, data_dir, now, pc, route, features, result, pass,
          document, archive, parse_result, call, answer>>

NumThreads == 2
MaxRequests == 3
MinBodySize == 10000
NoTime == 0

Threads == 1..NumThreads

NoFile == [state |-> "absent", features |-> <<>>]
ValidFile(fs) == [state |-> "valid", features |-> fs]
CorruptFile == [state |-> "corrupt", features |-> <<>>]

\* os.path.exists(geojson_path)
Exists == geojson_file.state # "absent"

NoResult == [status |-> "none", features |-> <<>>]
Returned(fs) == [status |-> "returned", features |-> fs]
Raised == [status |-> "raised", features |-> <<>>]

\* What requests.get produces: a timeout, a transport failure, or a response
\* with a status and a body of `size` bytes holding `kmz`.
Responses ==
    {[outcome |-> "timeout", size |-> 0, kmz |-> NotAZip],
     [outcome |-> "transport", size |-> 0, kmz |-> NotAZip],
     [outcome |-> "http_error", size |-> MinBodySize, kmz |-> NotAZip]}
    \cup [outcome : {"ok"}, size : {MinBodySize - 1, MinBodySize},
          kmz : {NotAZip, KmzNoParcels, KmzOneParcel, KmzTwoParcels}]

\* What os.listdir(DATA_DIR) returns: file names with the archive each holds.
DirFile(name, kmz) == [name |-> name, kmz |-> kmz]

Listings ==
    {<<>>,
     <<DirFile("parcels.geojson", NotAZip), DirFile("notes.kmz.txt", KmzTwoParcels)>>,
     <<DirFile("broken.kmz", NotAZip), DirFile("roads.kmz", KmzNoParcels)>>,
     <<DirFile("roads.kmz", KmzNoParcels), DirFile("old.kmz", KmzOneParcel),
       DirFile("new.kmz", KmzTwoParcels)>>,
     <<DirFile("new.kmz", KmzTwoParcels), DirFile("old.kmz", KmzOneParcel)>>}

\* The features of a cache file an earlier process left behind.
OldFeatures == parse_kmz(KmzOneParcel)

\* The record of a pass that has taken no step yet.
NewPass ==
    [fast |-> FALSE, fetched |-> FALSE, remote_ok |-> FALSE, local_ok |-> FALSE,
     stale |-> FALSE]

NotParsed == [done |-> FALSE, raised |-> FALSE, features |-> <<>>]

\* No function has been called, and none has returned.
NoCall == [op |-> "none"]
NoAnswer == [done |-> FALSE]
NoFunctionCall == call = NoCall /\ answer = NoAnswer

IdleThreads ==
    /\ now = 0
    /\ pc = [t \in Threads |-> "idle"]
    /\ route = [t \in Threads |-> "none"]
    /\ features = [t \in Threads |-> <<>>]
    /\ result = [t \in Threads |-> NoResult]
    /\ pass = [t \in Threads |-> NewPass]

\* The process starts (lines 22-27); the data directory and the cache file
\* are as an earlier process left them.
InitResolver ==
    /\ data_source_info = [source |-> "unknown", loaded_at |-> NoTime, parcel_count |-> 0,
                           error |-> None]
    /\ data_dir \in {"present", "missing"}
    /\ geojson_file \in (IF data_dir = "missing" THEN {NoFile}
                         ELSE {NoFile, CorruptFile, ValidFile(OldFeatures)})
    /\ IdleThreads

\* No document and no archive is being parsed.
IdleDocuments ==
    /\ document = MalformedDoc
    /\ archive = NotAZip
    /\ parse_result = NotParsed

IdleParser == IdleDocuments /\ NoFunctionCall

Init == InitResolver /\ IdleParser

\* A handler ends with what load_geojson_data produced.
Finish(t, res) ==
    /\ pc' = [pc EXCEPT ![t] = "done"]
    /\ result' = [result EXCEPT ![t] = res]

\* A request arrives at a route that calls load_geojson_data (get_parcels,
\* get_parcel, search_parcels, get_stats).
LoadRequest(t) ==
    /\ pc[t] \in {"idle", "done"}
    /\ now < MaxRequests
    /\ now' = now + 1
    /\ pc' = [pc EXCEPT ![t] = "check"]
    /\ route' = [route EXCEPT ![t] = "load"]
    /\ features' = [features EXCEPT ![t] = <<>>]
    /\ result' = [result EXCEPT ![t] = NoResult]
    /\ pass' = [pass EXCEPT ![t] = NewPass]
    /\ UNCHANGED <<data_source_info, geojson_file, data_dir, parser_vars>>

\* A request arrives at /api/refresh.
RefreshRequest(t) ==
    /\ pc[t] \in {"idle", "done"}
    /\ now < MaxRequests
    /\ now' = now + 1
    /\ pc' = [pc EXCEPT ![t] = "reset"]
    /\ route' = [route EXCEPT ![t] = "refresh"]
    /\ features' = [features EXCEPT ![t] = <<>>]
    /\ result' = [result EXCEPT ![t] = NoResult]
    /\ pass' = [pass EXCEPT ![t] = NewPass]
    /\ UNCHANGED <<data_source_info, geojson_file, data_dir, parser_vars>>

\* refresh_data without line 591: the source is left as it is.
RefreshWithoutReset(t) ==
    /\ pc[t] = "reset"
    /\ pc' = [pc EXCEPT ![t] = "delete"]
    /\ UNCHANGED <<data_source_info, geojson_file, data_dir, now, route, features, result,
                   pass, parser_vars>>

\* refresh_data, line 591.
RefreshReset(t) ==
    /\ pc[t] = "reset"
    /\ data_source_info' = [data_source_info EXCEPT !.source = "unknown"]
    /\ pc' = [pc EXCEPT ![t] = "delete"]
    /\ UNCHANGED <<geojson_file, data_dir, now, route, features, result, pass, parser_vars>>

\* refresh_data, lines 594-599: os.remove succeeds or fails, and a failure is
\* ignored.  load_geojson_data is called next.
RefreshDelete(t) ==
    /\ pc[t] = "delete"
    /\ \/ geojson_file' = NoFile
       \/ Exists /\ geojson_file' = geojson_file
    /\ pc' = [pc EXCEPT ![t] = "check"]
    /\ UNCHANGED <<data_source_info, data_dir, now, route, features, result, pass, parser_vars>>

\* load_geojson_data with the fast path taken whenever the source is known:
\* opening a cache file that does not exist raises.
CheckCacheByProvenance(t) ==
    /\ pc[t] = "check"
    /\ IF data_source_info.source # "unknown"
       THEN /\ Finish(t, IF geojson_file.state = "valid"
                         THEN Returned(geojson_file.features) ELSE Raised)
            /\ pass' = [pass EXCEPT ![t].fast = TRUE]
       ELSE /\ pc' = [pc EXCEPT ![t] = "fetch"]
            /\ UNCHANGED <<result, pass>>
    /\ UNCHANGED <<data_source_info, geojson_file, data_dir, now, route, features, parser_vars>>

\* load_geojson_data, lines 386-394: the fast path is taken when the cache
\* file exists and the source is known.  Reading a file that is unreadable
\* or not valid JSON raises out of load_geojson_data.
CheckCache(t) ==
    /\ pc[t] = "check"
    /\ IF Exists /\ data_source_info.source # "unknown"
       THEN /\ Finish(t, IF geojson_file.state = "valid"
                         THEN Returned(geojson_file.features) ELSE Raised)
            /\ pass' = [pass EXCEPT ![t].fast = TRUE]
       ELSE /\ pc' = [pc EXCEPT ![t] = "fetch"]
            /\ UNCHANGED <<result, pass>>
    /\ UNCHANGED <<data_source_info, geojson_file, data_dir, now, route, features, parser_vars>>

\* fetch_remote_kmz, lines 347-364: the features of a response that passes
\* every check, <<>> for one that does not.
RemoteFeatures(response) ==
    IF response.outcome = "ok" /\ response.size >= MinBodySize
    THEN parse_kmz_bytes(response.kmz)
    ELSE <<>>

\* fetch_remote_kmz, lines 366-377: the message the except branches record
\* ("..." stands for the part of the text that str(e) or the size fills in).
RemoteError(response) ==
    CASE response.outcome = "timeout" -> "Remote KMZ fetch timed out"
      [] response.outcome \in {"transport", "http_error"} -> "Remote KMZ fetch failed: ..."
      [] response.outcome = "ok" /\ response.size < MinBodySize ->
            "Remote KMZ processing error: Remote file too small (... bytes)"
      [] OTHER -> "Remote KMZ processing error: No features parsed from remote KMZ"

\* Every response of the model with what fetch_remote_kmz returns for it.
Fetches == {[response |-> response, fetched |-> RemoteFeatures(response)] :
                response \in Responses}

\* fetch_remote_kmz without its except branches: a failure records nothing.
InfoAfterSilentFetch(info, response, fetched, time) ==
    IF fetched # <<>>
    THEN [source |-> "remote", loaded_at |-> time, parcel_count |-> Len(fetched),
          error |-> None]
    ELSE info

\* fetch_remote_kmz without line 359: a success keeps the old loaded_at.
InfoAfterUndatedFetch(info, response, fetched, time) ==
    IF fetched # <<>>
    THEN [source |-> "remote", loaded_at |-> info.loaded_at, parcel_count |-> Len(fetched),
          error |-> None]
    ELSE [info EXCEPT !.error = RemoteError(response)]

\* fetch_remote_kmz, lines 356-362 and 366-379: data_source_info after the
\* call that got `response` and parsed `fetched` from it.
InfoAfterFetch(info, response, fetched, time) ==
    IF fetched # <<>>
    THEN [source |-> "remote", loaded_at |-> time, parcel_count |-> Len(fetched),
          error |-> None]
    ELSE [info EXCEPT !.error = RemoteError(response)]

\* load_geojson_data, lines 397-399: 'features = fetch_remote_kmz()' and the
\* branch on it.
AfterFetch(t, response, fetched) ==
    /\ data_source_info' = InfoAfterFetch(data_source_info, response, fetched, now)
    /\ features' = [features EXCEPT ![t] = fetched]
    /\ pass' = [pass EXCEPT ![t].fetched = TRUE, ![t].remote_ok = fetched # <<>>]
    /\ pc' = [pc EXCEPT ![t] = IF fetched # <<>> THEN "cache_remote" ELSE "local"]

FetchRemote(t) ==
    /\ pc[t] = "fetch"
    /\ \E fetch \in Fetches : AfterFetch(t, fetch.response, fetch.fetched)
    /\ UNCHANGED <<geojson_file, data_dir, now, route, result, parser_vars>>

\* open(geojson_path, 'w') and json.dump, lines 405-410 and 429-434: the file
\* after the attempt.  The write succeeds, open fails (the file is as it was),
\* or json.dump fails after open truncated the file.
FilesAfterWrite(fs) ==
    IF data_dir = "missing" THEN {geojson_file}
    ELSE {ValidFile(fs), geojson_file, CorruptFile}

\* load_geojson_data, lines 400-411: cache the remote features and return.
CacheRemote(t) ==
    /\ pc[t] = "cache_remote"
    /\ geojson_file' \in FilesAfterWrite(features[t])
    /\ Finish(t, Returned(features[t]))
    /\ UNCHANGED <<data_source_info, data_dir, now, route, features, pass, parser_vars>>

\* load_geojson_data, lines 415-419: the loop over the listing, up to the
\* first .kmz file that yields a feature; <<>> when none does.
RECURSIVE ScanFiles(_)
RECURSIVE AfterFile(_, _)
ScanFiles(files) ==
    IF files = <<>> THEN <<>>
    ELSE IF ~EndsWith(Head(files).name, ".kmz") THEN ScanFiles(Tail(files))
    ELSE AfterFile(parse_kmz(Head(files).kmz), Tail(files))

AfterFile(parsed, rest) == IF parsed # <<>> THEN parsed ELSE ScanFiles(rest)

\* What the loop finds, for every listing of the model.
Scans == {ScanFiles(listing) : listing \in Listings}

\* Lines 419-422 with the error cleared as a remote load clears it.
AfterScanClearingError(t, scanned) ==
    IF scanned # <<>>
    THEN /\ features' = [features EXCEPT ![t] = scanned]
         /\ data_source_info' =
                [data_source_info EXCEPT
                    !.source = "local", !.loaded_at = now, !.parcel_count = Len(scanned),
                    !.error = None]
         /\ pass' = [pass EXCEPT ![t].local_ok = TRUE]
         /\ pc' = [pc EXCEPT ![t] = "cache_local"]
         /\ UNCHANGED result
    ELSE /\ pc' = [pc EXCEPT ![t] = "stale"]
         /\ UNCHANGED <<data_source_info, features, result, pass>>

\* load_geojson_data, lines 419-422 and 437: the loop found `scanned`.
AfterScan(t, scanned) ==
    IF scanned # <<>>
    THEN /\ features' = [features EXCEPT ![t] = scanned]
         /\ data_source_info' =
                [data_source_info EXCEPT
                    !.source = "local", !.loaded_at = now, !.parcel_count = Len(scanned)]
         /\ pass' = [pass EXCEPT ![t].local_ok = TRUE]
         /\ pc' = [pc EXCEPT ![t] = "cache_local"]
         /\ UNCHANGED result
    ELSE /\ pc' = [pc EXCEPT ![t] = "stale"]
         /\ UNCHANGED <<data_source_info, features, result, pass>>

\* load_geojson_data, lines 415-422: os.listdir raises when DATA_DIR is
\* missing or cannot be listed, and the exception leaves load_geojson_data.
ScanLocal(t) ==
    /\ pc[t] = "local"
    /\ \/ /\ Finish(t, Raised)
          /\ UNCHANGED <<data_source_info, features, pass>>
       \/ /\ data_dir = "present"
          /\ \E scanned \in Scans : AfterScan(t, scanned)
    /\ UNCHANGED <<geojson_file, data_dir, now, route, parser_vars>>

\* load_geojson_data, lines 424-435: cache the local features and return.
CacheLocal(t) ==
    /\ pc[t] = "cache_local"
    /\ geojson_file' \in FilesAfterWrite(features[t])
    /\ Finish(t, Returned(features[t]))
    /\ UNCHANGED <<data_source_info, data_dir, now, route, features, pass, parser_vars>>

\* load_geojson_data, lines 438-449: data_source_info after the last step
\* (source is set before the cache file is read, parcel_count after).
InfoAfterStale(info) ==
    IF geojson_file.state = "valid"
    THEN [info EXCEPT !.source = "cached", !.parcel_count = Len(geojson_file.features)]
    ELSE IF geojson_file.state = "corrupt"
    THEN [info EXCEPT !.source = "cached"]
    ELSE [info EXCEPT !.source = "none", !.error = "No data source available"]

\* load_geojson_data, lines 438-449: the existing cache file as last
\* resort, or the empty FeatureCollection.
StaleCache(t) ==
    /\ pc[t] = "stale"
    /\ data_source_info' = InfoAfterStale(data_source_info)
    /\ pass' = [pass EXCEPT ![t].stale = Exists]
    /\ Finish(t, IF geojson_file.state = "valid" THEN Returned(geojson_file.features)
                 ELSE IF geojson_file.state = "corrupt" THEN Raised
                 ELSE Returned(<<>>))
    /\ UNCHANGED <<geojson_file, data_dir, now, route, features, parser_vars>>

\* One step of a handler that is running.
Step(t) ==
    \/ RefreshReset(t)
    \/ RefreshDelete(t)
    \/ CheckCache(t)
    \/ FetchRemote(t)
    \/ CacheRemote(t)
    \/ ScanLocal(t)
    \/ CacheLocal(t)
    \/ StaleCache(t)

\* The thread of a host that handles one request at a time.
MainThread == CHOOSE t \in Threads : \A u \in Threads : t <= u

\* Requests handled one at a time.
Next == LoadRequest(MainThread) \/ RefreshRequest(MainThread) \/ Step(MainThread)

Spec == Init /\ [][Next]_vars

\* Requests handled concurrently, one thread each, as app.run serves them.
NextThreaded == \E t \in Threads : LoadRequest(t) \/ RefreshRequest(t) \/ Step(t)

SpecThreaded == Init /\ [][NextThreaded]_vars

(***************************************************************************)
(* The parsers on their own: parse_kml on every document of at most        *)
(* MaxPlacemarks of the sample Placemarks, parse_kmz and parse_kmz_bytes   *)
(* on every archive of at most MaxEntries of the sample entries.           *)
(***************************************************************************)
MaxPlacemarks == 2
MaxEntries == 3

\* The sequences over S of length at most n.
SeqUpTo(S, n) == UNION {[1..k -> S] : k \in 0..n}

PlacemarkSamples ==
    {PmLotA, PmLotB, PmRoad, PmUnknown, PmBlank, PmOwnerOnly, PmNoGeometry, PmPoint,
     PmBadPoint, PmEmptyValue, PmDescribed}

Documents == {MalformedDoc} \cup {Doc(pms) : pms \in SeqUpTo(PlacemarkSamples, MaxPlacemarks)}

EntrySamples ==
    {Entry("lots.kml", Doc(<<PmLotA, PmRoad>>)),
     Entry("more.kml", Doc(<<PmLotB>>)),
     Entry("broken.kml", MalformedDoc),
     Entry("empty-value.kml", Doc(<<PmPoint, PmEmptyValue>>)),
     Entry("readme.txt", Doc(<<PmDescribed>>)),
     [name |-> "damaged.kml", readable |-> FALSE, content |-> MalformedDoc]}

Archives == {NotAZip} \cup {Kmz(entries) : entries \in SeqUpTo(EntrySamples, MaxEntries)}

\* The resolver at rest while a parser runs.
IdleResolver ==
    /\ data_source_info = [source |-> "unknown", loaded_at |-> NoTime, parcel_count |-> 0,
                           error |-> None]
    /\ data_dir = "present"
    /\ geojson_file = NoFile
    /\ IdleThreads

InitKml ==
    /\ IdleResolver
    /\ document \in Documents
    /\ archive = NotAZip
    /\ parse_result = NotParsed
    /\ NoFunctionCall

\* What a caller of a parser sees: the list returned, or the exception.
Parsed(parsed) == [done |-> TRUE, raised |-> parsed.raised, features |-> parsed.features]

\* parse_kml(kml_content) is called on the document.
ParseKml ==
    /\ ~parse_result.done
    /\ parse_result' = Parsed(parse_kml(document))
    /\ UNCHANGED <<resolver_vars, document, archive, call, answer>>

SpecKml == InitKml /\ [][ParseKml]_vars

InitKmz ==
    /\ IdleResolver
    /\ document = MalformedDoc
    /\ archive \in Archives
    /\ parse_result = NotParsed
    /\ NoFunctionCall

\* parse_kmz(kmz_path) is called on the archive at a path.
ParseKmz ==
    /\ ~parse_result.done
    /\ parse_result' = [done |-> TRUE, raised |-> FALSE, features |-> parse_kmz(archive)]
    /\ UNCHANGED <<resolver_vars, document, archive, call, answer>>

\* parse_kmz_bytes(kmz_bytes) is called on the archive held in memory.
ParseKmzBytes ==
    /\ ~parse_result.done
    /\ parse_result' = [done |-> TRUE, raised |-> FALSE, features |-> parse_kmz_bytes(archive)]
    /\ UNCHANGED <<resolver_vars, document, archive, call, answer>>

NextKmz == ParseKmz \/ ParseKmzBytes

SpecKmz == InitKmz /\ [][NextKmz]_vars

(***************************************************************************)
(* parse_coordinates on its own, on every text of at most MaxTokens of the *)
(* sample tokens.  A sample is [text, ok, pair]: the token, whether its    *)
(* first two comma-separated parts are numerals, and the numbers they      *)
(* denote (in tenths).                                                     *)
(***************************************************************************)
MaxTokens == 3

Token(text, ok, pair) == [text |-> text, ok |-> ok, pair |-> pair]

TokenSamples ==
    {Token("-69.1,44.9,0", TRUE, <<-691, 449>>),
     Token("-69.2,44.8", TRUE, <<-692, 448>>),
     Token("+3,4.", TRUE, <<30, 40>>),
     Token("0,0", TRUE, <<0, 0>>),
     Token("bad", FALSE, <<>>),
     Token("7", FALSE, <<>>),
     Token("1,x", FALSE, <<>>),
     Token(",5", FALSE, <<>>),
     Token("1,,2", FALSE, <<>>)}

\* The whitespace between two tokens.
Separators == {" ", "\n\t "}

RECURSIVE JoinTokens(_, _)
JoinTokens(tokens, sep) ==
    IF tokens = <<>> THEN ""
    ELSE IF Len(tokens) = 1 THEN tokens[1].text
    ELSE tokens[1].text \o sep \o JoinTokens(Tail(tokens), sep)

\* The text of a coordinates element: the tokens, separated by sep, between
\* a line break with indentation and a trailing blank.
CoordinateText(tokens, sep) == "\n  " \o JoinTokens(tokens, sep) \o " "

CoordinateCalls ==
    {[op |-> "parse_coordinates", tokens |-> tokens, sep |-> sep,
      text |-> CoordinateText(tokens, sep)] :
        tokens \in SeqUpTo(TokenSamples, MaxTokens), sep \in Separators}

InitCoordinates ==
    /\ IdleResolver
    /\ IdleDocuments
    /\ call \in CoordinateCalls
    /\ answer = NoAnswer

\* The value a call returned.
Answer(value) == [done |-> TRUE, raised |-> FALSE, value |-> value]

\* The exception a call raised.
AnswerRaised == [done |-> TRUE, raised |-> TRUE, value |-> <<>>]

\* parse_coordinates(coord_string) is called on the text.
ParseCoordinates ==
    /\ ~answer.done
    /\ answer' = Answer(parse_coordinates(call.text))
    /\ UNCHANGED <<resolver_vars, document, archive, parse_result, call>>

SpecCoordinates == InitCoordinates /\ [][ParseCoordinates]_vars

(***************************************************************************)
(* get_geometry_center.  A quotient a / b is held as the fraction <<n, d>> *)
(* in lowest terms with d > 0; the result is [absent, coord], absent for   *)
(* None.                                                                   *)
(***************************************************************************)
Abs(a) == IF a < 0 THEN 0 - a ELSE a

RECURSIVE GCD(_, _)
GCD(a, b) == IF b = 0 THEN a ELSE GCD(b, a % b)

\* a / b for b > 0
Divide(a, b) == <<a \div GCD(Abs(a), b), b \div GCD(Abs(a), b)>>

\* sum(c[k] for c in points)
RECURSIVE SumOf(_, _)
SumOf(points, k) == IF points = <<>> THEN 0 ELSE Head(points)[k] + SumOf(Tail(points), k)

NoCenter == [absent |-> TRUE, coord |-> <<>>]
Center(coord) == [absent |-> FALSE, coord |-> coord]

\* Lines 545-548 and 557-560.
MeanOf(points) ==
    Center(<<Divide(SumOf(points, 1), Len(points)), Divide(SumOf(points, 2), Len(points))>>)

\* Lines 552-555 with the loop left after the first polygon.
FirstCoords(coords) ==
    IF coords # <<>> /\ coords[1] # <<>> /\ coords[1][1] # <<>> THEN coords[1][1] ELSE <<>>

\* Lines 552-555: the outer rings of the polygons that have one, end to end.
RECURSIVE AllCoords(_)
AllCoords(coords) ==
    IF coords = <<>> THEN <<>>
    ELSE (IF Head(coords) # <<>> /\ Head(coords)[1] # <<>> THEN Head(coords)[1] ELSE <<>>)
         \o AllCoords(Tail(coords))

\* Lines 556-560, on all_coords.
MultiPolygonCenter(all_coords) == IF all_coords # <<>> THEN MeanOf(all_coords) ELSE NoCenter

get_geometry_center(geometry) ==
    IF geometry = NoGeometry THEN NoCenter
    ELSE IF geometry.type = "Point" THEN Center(geometry.coordinates[1][1][1])
    ELSE IF geometry.type = "Polygon"
         THEN IF geometry.coordinates[1] # <<>> /\ geometry.coordinates[1][1] # <<>>
              THEN MeanOf(geometry.coordinates[1][1])
              ELSE NoCenter
    ELSE IF geometry.type = "MultiPolygon"
         THEN MultiPolygonCenter(AllCoords(geometry.coordinates))
    ELSE NoCenter

(***************************************************************************)
(* get_geometry_center on its own, on the geometries over the sample rings *)
(* (coordinates in tenths): none, Points, LineStrings, Polygons with and    *)
(* without a ring, and MultiPolygons of at most MaxPolygons polygons.      *)
(***************************************************************************)
MaxPolygons == 2

Square == << <<0, 0>>, <<20, 0>>, <<20, 20>>, <<0, 20>> >>

RingSamples ==
    {<<>>,
     Square,
     << <<0, 0>>, <<10, 0>>, <<0, 10>> >>,
     << <<-691, 449>> >>,
     << <<-691, 449>>, <<-692, 448>> >>,
     << <<5, 5>>, <<5, 5>>, <<-10, 25>>, <<0, 0>>, <<5, 5>> >>}

\* A Polygon whose coordinates hold no ring.
PolygonWithoutRing == [type |-> "Polygon", coordinates |-> << <<>> >>]

\* A MultiPolygon of the polygons [ring] over the given rings.
MultiPolygonOf(rings) ==
    [type |-> "MultiPolygon", coordinates |-> [i \in 1..Len(rings) |-> <<rings[i]>>]]

GeometrySamples ==
    {NoGeometry, PolygonWithoutRing}
    \cup {PointGeometry(ring[1][1], ring[1][2]) : ring \in RingSamples \ {<<>>}}
    \cup {LineStringGeometry(ring) : ring \in RingSamples}
    \cup {PolygonGeometry(ring) : ring \in RingSamples}
    \cup {MultiPolygonOf(rings) : rings \in SeqUpTo(RingSamples, MaxPolygons)}

InitCenter ==
    /\ IdleResolver
    /\ IdleDocuments
    /\ call \in {[op |-> "get_geometry_center", geometry |-> g] : g \in GeometrySamples}
    /\ answer = NoAnswer

\* get_geometry_center(geometry) is called (search_parcels, line 509).
GetGeometryCenter ==
    /\ ~answer.done
    /\ answer' = Answer(get_geometry_center(call.geometry))
    /\ UNCHANGED <<resolver_vars, document, archive, parse_result, call>>

SpecCenter == InitCenter /\ [][GetGeometryCenter]_vars

(***************************************************************************)
(* The geometry checks of parse_kml (lines 205-257) on their own, on one   *)
(* Placemark for every combination of a Polygon, a Point, a LineString and *)
(* a MultiGeometry of at most MaxNested nested elements, in that document  *)
(* order.                                                                  *)
(***************************************************************************)
MaxNested == 2

OtherRing == "0,0 2,0 2,2 0,2"

LineStringElement == [kind |-> "LineString", coords |-> "-69.1,44.9 -69.3,44.7", children |-> <<>>]

\* <Polygon/>: no coordinates element below it.
PolygonWithoutCoordinates == [kind |-> "Polygon", coords |-> None, children |-> <<>>]

MultiGeometryElement(children) ==
    [kind |-> "MultiGeometry", coords |-> None, children |-> children]

PolygonChoices == {<<>>, <<PolygonElement>>, <<PolygonWithoutCoordinates>>}

PointChoices ==
    {<<>>, <<PointElement("-69.1,44.9,0")>>, <<PointElement("abc")>>, <<PointElement("5")>>,
     <<[kind |-> "Point", coords |-> None, children |-> <<>>]>>}

LineStringChoices == {<<>>, <<LineStringElement>>}

NestedSamples ==
    {PolygonElement,
     [PolygonElement EXCEPT !.coords = OtherRing],
     PolygonWithoutCoordinates,
     PointElement("1,2"),
     LineStringElement}

MultiGeometryChoices ==
    {<<>>} \cup {<<MultiGeometryElement(children)>> :
                     children \in SeqUpTo(NestedSamples, MaxNested)}

GeometryCalls ==
    {[op |-> "geometry", pm |-> Pm("12-34", <<>>, polygon \o point \o linestring \o multi)] :
        polygon \in PolygonChoices, point \in PointChoices,
        linestring \in LineStringChoices, multi \in MultiGeometryChoices}

InitGeometry ==
    /\ IdleResolver
    /\ IdleDocuments
    /\ call \in GeometryCalls
    /\ answer = NoAnswer

\* Lines 205-257 for one Placemark: feature['geometry'] after the four
\* checks, or the exception the Point check raised.
GeometryChecks(pm) ==
    IF PointRaises(Find(pm.geom, "Point")) THEN AnswerRaised
    ELSE Answer(ExtractGeometry(pm))

\* The loop body of parse_kml runs its geometry checks on the Placemark.
CheckGeometry ==
    /\ ~answer.done
    /\ answer' = GeometryChecks(call.pm)
    /\ UNCHANGED <<resolver_vars, document, archive, parse_result, call>>

SpecGeometry == InitGeometry /\ [][CheckGeometry]_vars

(***************************************************************************)
(* The property steps of parse_kml (lines 170-203) on their own, on one    *)
(* Placemark for every combination of a name, a description table, Data    *)
(* entries and SimpleData entries.                                         *)
(***************************************************************************)
StartEvent(tag, style) == [ev |-> "start", tag |-> tag, arg |-> style]
EndEvent(tag) == [ev |-> "end", tag |-> tag, arg |-> ""]
DataEvent(text) == [ev |-> "data", tag |-> "", arg |-> text]

\* <td>text</td>
CellEvents(text) == <<StartEvent("td", ""), DataEvent(text), EndEvent("td")>>

\* <tr><td>key</td><td>value</td></tr>
RowEvents(key, value) ==
    <<StartEvent("tr", "")>> \o CellEvents(key) \o CellEvents(value) \o <<EndEvent("tr")>>

\* <table><tr><td>MAP_LOT</td><td>99-1</td></tr><tr><td>name</td><td>Lot 99</td></tr></table>
MapLotTable ==
    <<StartEvent("table", "")>> \o RowEvents("MAP_LOT", "99-1") \o RowEvents("name", "Lot 99")
    \o <<EndEvent("table")>>

\* <table><tr><td>Acres</td><td>12.5</td></tr></table>
AcresTable == <<StartEvent("table", "")>> \o RowEvents("Acres", "12.5") \o <<EndEvent("table")>>

\* <table><tr><td>Acres</td><td>12.5</td></tr><tr style><td>Town</td></tr></table>
ValuelessStyleTable ==
    <<StartEvent("table", "")>> \o RowEvents("Acres", "12.5")
    \o <<StartEvent("tr", None)>> \o CellEvents("Town") \o <<EndEvent("tr"), EndEvent("table")>>

NameChoices == {None, "12-34"}

DescriptionChoices == {<<>>, OwnerTable, MapLotTable, AcresTable, ValuelessStyleTable}

DataChoices ==
    {<<>>,
     OwnerData("Jane Doe"),
     <<[key |-> "MapLot", has_value |-> TRUE, text |-> "77-7"]>>,
     <<[key |-> "Owner", has_value |-> FALSE, text |-> None],
       [key |-> "Acres", has_value |-> TRUE, text |-> "3.2"]>>}

SimpleDataChoices ==
    {<<>>,
     <<[key |-> "Owner", text |-> "Sam Poe"]>>,
     <<[key |-> "Town", text |-> "Dixmont"], [key |-> "County", text |-> None]>>}

PropertyCalls ==
    {[op |-> "properties",
      pm |-> [name |-> name, description |-> description, data |-> data,
              simple_data |-> simple_data, geom |-> <<PolygonElement>>]] :
        name \in NameChoices, description \in DescriptionChoices,
        data \in DataChoices, simple_data \in SimpleDataChoices}

InitProperties ==
    /\ IdleResolver
    /\ IdleDocuments
    /\ call \in PropertyCalls
    /\ answer = NoAnswer

\* The loop body of parse_kml builds feature['properties'] of the Placemark.
BuildFeatureProperties ==
    /\ ~answer.done
    /\ answer' = Answer(BuildProperties(call.pm))
    /\ UNCHANGED <<resolver_vars, document, archive, parse_result, call>>

SpecProperties == InitProperties /\ [][BuildFeatureProperties]_vars

(***************************************************************************)
(* KMLDescriptionParser fed one event at a time: every sequence of at most *)
(* MaxEvents row-start, cell-start, text, cell-end and row-end events, a   *)
(* row collecting at most MaxRowData texts.  call holds the parser, the    *)
(* number of events fed, the last event, the parser before it, and the     *)
(* style attribute of the last row start ('' before the first).            *)
(***************************************************************************)
MaxEvents == 10
MaxRowData == 3

RowStyles == {"", "color:red", "font-weight:bold;", "padding:2px;text-align:center"}

CellTexts == {"\n  ", " Owner ", "Jane Doe"}

FeedCall(p, fed, event, before, style) ==
    [op |-> "feed", p |-> p, fed |-> fed, event |-> event, before |-> before, style |-> style]

InitTable ==
    /\ IdleResolver
    /\ IdleDocuments
    /\ call = FeedCall(ParserInit, 0, EndEvent("table"), ParserInit, "")
    /\ answer = NoAnswer

\* html.parser hands the next event of the description to its handler.
FeedEvent(e) ==
    /\ call.fed < MaxEvents
    /\ call' = FeedCall(HandleEvent(call.p, e), call.fed + 1, e, call.p,
                        IF e.ev = "start" /\ e.tag = "tr" THEN e.arg ELSE call.style)
    /\ UNCHANGED <<resolver_vars, document, archive, parse_result, answer>>

StartRow == \E style \in RowStyles : FeedEvent(StartEvent("tr", style))

StartCell == FeedEvent(StartEvent("td", ""))

Text == \E text \in CellTexts : Len(call.p.row_data) < MaxRowData /\ FeedEvent(DataEvent(text))

EndCell == FeedEvent(EndEvent("td"))

EndRow == FeedEvent(EndEvent("tr"))

NextTable == StartRow \/ StartCell \/ Text \/ EndCell \/ EndRow

SpecTable == InitTable /\ [][NextTable]_vars

(***************************************************************************)
(* get_properties on its own, on a parser whose data holds at most MaxKeys *)
(* of the sample rows (each key once, in any order) and whose              *)
(* owner_from_header is None or a header row's text.                       *)
(***************************************************************************)
MaxKeys == 3

ItemSamples ==
    {<<"Owner", "Jane Doe">>, <<"owner", "John Roe">>, <<"OWNER", "TOWN OF DIXMONT">>,
     <<"GISAcres", "12.5">>, <<"Acres", "13">>, <<"Year_Built", "1900">>, <<"Zoning", "R1">>}

\* self.data after the rows: a dict, so no key twice.
DataSamples ==
    {items \in SeqUpTo(ItemSamples, MaxKeys) :
        \A i, j \in 1..Len(items) : i # j => items[i][1] # items[j][1]}

HeaderSamples == {None, "ROE JOHN & MARY"}

NormalizerCalls ==
    {[op |-> "get_properties",
      p |-> [ParserInit EXCEPT !.data = items, !.owner_from_header = header]] :
        items \in DataSamples, header \in HeaderSamples}

InitNormalizer ==
    /\ IdleResolver
    /\ IdleDocuments
    /\ call \in NormalizerCalls
    /\ answer = NoAnswer

\* parser.get_properties() is called after the feed (line 136).
GetProperties ==
    /\ ~answer.done
    /\ answer' = Answer(get_properties(call.p))
    /\ UNCHANGED <<resolver_vars, document, archive, parse_result, call>>

SpecNormalizer == InitNormalizer /\ [][GetProperties]_vars

(***************************************************************************)
(* The claims.                                                             *)
(***************************************************************************)

\* C1: load_geojson_data never raises: every request that has ended
\* returned a FeatureCollection, whatever the remote fetch, the data
\* directory and the cache file did.
C1_NeverRaises == \A t \in Threads : result[t].status # "raised"

\* A pass whose remote fetch has failed.
RemoteFailed(t) == pass[t].fetched /\ ~pass[t].remote_ok

\* C2: when the remote fetch fails, the fetch records a non-empty error,
\* leaves the source and the cache file as they were and hands over to the
\* local scan; for the rest of that pass the error stays non-empty, the
\* source is never set to remote, and the cache file is written only with
\* what the local scan found.
C2_RemoteFailureFallsThrough ==
    [][\A t \in Threads :
        /\ (pc[t] = "fetch" /\ pc'[t] # "fetch" /\ features'[t] = <<>>) =>
                /\ Truthy(data_source_info'.error)
                /\ data_source_info'.source = data_source_info.source
                /\ geojson_file' = geojson_file
                /\ pc'[t] = "local"
        /\ (pass'[t].fetched /\ ~pass'[t].remote_ok) =>
                /\ Truthy(data_source_info'.error)
                /\ pc'[t] \in {"local", "cache_local", "stale", "done"}
                /\ data_source_info'.source = "remote" => data_source_info.source = "remote"
                /\ geojson_file' # geojson_file =>
                        pc[t] = "cache_local" /\ geojson_file' \in FilesAfterWrite(features[t])
      ]_vars

\* The 9,999-byte body has been rejected and the pass is at the local scan.
C2_Witness ==
    \E t \in Threads :
        /\ RemoteFailed(t)
        /\ pc[t] = "local"
        /\ data_source_info.error = "Remote KMZ processing error: Remote file too small (... bytes)"

\* C3: a pass that does not take the fast path returns the result of the
\* first source that succeeds in the order remote, local, cache file, empty;
\* it returns the empty collection with source none and error "No data
\* source available" exactly when the remote fetch failed, no local archive
\* yielded a feature and no cache file exists.
C3_PriorityOrder ==
    \A t \in Threads :
        (pc[t] = "done" /\ ~pass[t].fast) =>
            /\ result[t].status = "returned"
            /\ pass[t].remote_ok =>
                    result[t].features = features[t] /\ data_source_info.source = "remote"
            /\ (~pass[t].remote_ok /\ pass[t].local_ok) =>
                    result[t].features = features[t] /\ data_source_info.source = "local"
            /\ (~pass[t].remote_ok /\ ~pass[t].local_ok /\ Exists) =>
                    result[t].features = geojson_file.features
            /\ (/\ result[t].features = <<>>
                /\ data_source_info.source = "none"
                /\ data_source_info.error = "No data source available")
               <=> (~pass[t].remote_ok /\ ~pass[t].local_ok /\ ~Exists)

\* C4: a request that finds the cache file while the source is known
\* returns the file's contents at once, without a remote fetch or a parse,
\* and leaves data_source_info and the cache file as they were (so a second
\* such request returns the same).
C4_FastPath ==
    [][\A t \in Threads :
        (pc[t] = "check" /\ pc'[t] # "check" /\ Exists
                         /\ data_source_info.source # "unknown") =>
            /\ pc'[t] = "done"
            /\ result'[t] = Returned(geojson_file.features)
            /\ ~pass'[t].fetched
            /\ data_source_info' = data_source_info
            /\ geojson_file' = geojson_file
      ]_vars

\* C5: a refresh sets the source to unknown, then attempts the deletion,
\* then resolves; its resolution never takes the fast path and begins with
\* the remote fetch, also when the cache file is still there; the source
\* becomes unknown only by a refresh; and when the refresh's resolution
\* returns, the source is remote, local, cached or none.
C5_Refresh ==
    [][/\ (data_source_info'.source = "unknown" /\ data_source_info.source # "unknown") =>
            \E t \in Threads : route[t] = "refresh" /\ pc[t] = "reset" /\ pc'[t] = "delete"
       /\ \A t \in Threads :
            route'[t] = "refresh" =>
                /\ pc'[t] \in {"delete", "check"} => data_source_info'.source = "unknown"
                /\ (pc[t] = "delete" /\ pc'[t] # "delete") => pc'[t] = "check"
                /\ (pc[t] = "check" /\ pc'[t] # "check") => pc'[t] = "fetch"
                /\ ~pass'[t].fast
                /\ (pc'[t] = "done" /\ result'[t].status = "returned") =>
                        /\ pass'[t].fetched
                        /\ data_source_info'.source \in {"remote", "local", "cached", "none"}
      ]_vars

\* A refresh whose deletion failed has run the whole chain and ended on the
\* cache file that was still there.
C5_Witness ==
    \E t \in Threads :
        /\ route[t] = "refresh"
        /\ pc[t] = "done"
        /\ result[t].status = "returned"
        /\ pass[t].fetched /\ pass[t].stale

\* A pass between its read of data_source_info and its last write.
InPass(t) == pc[t] \in {"fetch", "cache_remote", "local", "cache_local", "stale"}

\* C6: with requests handled concurrently, at most one pass at a time is
\* between its read of data_source_info and its last write to it or to the
\* cache file.
C6_MutualExclusion == \A t, u \in Threads : (InPass(t) /\ InPass(u)) => t = u

\* C7: when the remote fetch yields n >= 1 features, the pass ends with
\* data_source_info = {remote, the load time, n, no error} and returns those
\* n features, whatever became of the cache write.
C7_RemoteSuccess ==
    \A t \in Threads :
        (pass[t].remote_ok /\ pc[t] \in {"cache_remote", "done"}) =>
            /\ Len(features[t]) >= 1
            /\ \E fetch \in Fetches :
                    /\ fetch.response.outcome = "ok"
                    /\ fetch.response.size >= MinBodySize
                    /\ features[t] = fetch.fetched
            /\ data_source_info = [source |-> "remote", loaded_at |-> now,
                                   parcel_count |-> Len(features[t]), error |-> None]
            /\ pc[t] = "done" => result[t] = Returned(features[t])

\* A remote load of two features has ended although its cache write failed.
C7_Witness ==
    \E t \in Threads :
        /\ pass[t].remote_ok
        /\ pc[t] = "done"
        /\ Len(features[t]) = 2
        /\ geojson_file # ValidFile(features[t])

\* C8: a pass that ends in the stale-cache step and returns leaves
\* data_source_info = {cached, loaded_at unset, n} with n the number of
\* features in the cache file, and returns the file's contents; loaded_at
\* keeps no timestamp of an earlier load.
C8_StaleProvenance ==
    \A t \in Threads :
        (pc[t] = "done" /\ pass[t].stale /\ result[t].status = "returned") =>
            /\ data_source_info.source = "cached"
            /\ data_source_info.loaded_at = NoTime
            /\ data_source_info.parcel_count = Len(geojson_file.features)
            /\ result[t] = Returned(geojson_file.features)

\* The trimmed name and Owner the filter looks at.
TrimmedName(props) == Strip(Get(props, "name", ""))
TrimmedOwner(props) == Strip(Get(props, "Owner", ""))

\* A Placemark the filtering rule keeps: it has a geometry, its name and
\* Owner are not both empty, and its name is no sentinel.
ShouldKeep(pm) ==
    /\ ExtractGeometry(pm) # NoGeometry
    /\ ~(TrimmedName(BuildProperties(pm)) = "" /\ TrimmedOwner(BuildProperties(pm)) = "")
    /\ TrimmedName(BuildProperties(pm)) \notin {"", "UNK", "ROW"}

\* The Features of the Placemarks pms.
FeaturesOf(pms) ==
    [i \in 1..Len(pms) |->
        [properties |-> BuildProperties(pms[i]), geometry |-> ExtractGeometry(pms[i])]]

\* C9: for every document parse_kml returns a list; every Feature in it has
\* a geometry and a trimmed name that is neither empty nor UNK nor ROW; and
\* the list holds the Feature of every Placemark the filtering rule keeps.
C9_Filtering ==
    parse_result.done =>
        /\ ~parse_result.raised
        /\ \A i \in 1..Len(parse_result.features) :
                /\ parse_result.features[i].geometry # NoGeometry
                /\ TrimmedName(parse_result.features[i].properties) \notin {"", "UNK", "ROW"}
        /\ parse_result.features = FeaturesOf(SelectSeq(document.placemarks, ShouldKeep))

\* What one entry contributes: the Features of its document, nothing when
\* it is no .kml entry or its XML is not well-formed.
EntryFeatures(entry) ==
    IF EndsWith(entry.name, ".kml") THEN parse_kml(entry.content).features ELSE <<>>

RECURSIVE Concatenation(_)
Concatenation(entries) ==
    IF entries = <<>> THEN <<>>
    ELSE EntryFeatures(Head(entries)) \o Concatenation(Tail(entries))

\* C10: for an archive whose entries can all be read, the archive reader
\* returns the concatenation, in entry order, of each .kml entry's Features;
\* an entry that is not well-formed contributes nothing and stops no other.
C10_Concatenation ==
    (parse_result.done /\ \A i \in 1..Len(archive.entries) : archive.entries[i].readable) =>
        parse_result.features = Concatenation(archive.entries)


\* The pairs of the well-formed tokens, in input order.
RECURSIVE WellFormedPairs(_)
WellFormedPairs(tokens) ==
    IF tokens = <<>> THEN <<>>
    ELSE (IF Head(tokens).ok THEN <<Head(tokens).pair>> ELSE <<>>)
         \o WellFormedPairs(Tail(tokens))

\* C11: parse_coordinates returns exactly the (lon, lat) pairs of the
\* well-formed tokens of its text, in input order: a malformed token is
\* skipped wherever it stands, the output is no longer than the token
\* sequence, and a text of malformed tokens only gives the empty sequence.
C11_ParseCoordinates ==
    (call.op = "parse_coordinates" /\ answer.done) =>
        /\ ~answer.raised
        /\ answer.value = WellFormedPairs(call.tokens)
        /\ Len(answer.value) <= Len(call.tokens)
        /\ ((\A i \in 1..Len(call.tokens) : ~call.tokens[i].ok) => answer.value = <<>>)

\* A malformed token stands between two well-formed ones, and both pairs
\* are returned.
C11_Witness ==
    /\ call.op = "parse_coordinates"
    /\ answer.done
    /\ Len(call.tokens) = 3
    /\ call.tokens[1].ok /\ ~call.tokens[2].ok /\ call.tokens[3].ok
    /\ answer.value = <<call.tokens[1].pair, call.tokens[3].pair>>

\* Whether the fraction q is total / count.
IsQuotient(q, total, count) == q[2] > 0 /\ q[1] * count = total * q[2]

\* Whether center is the arithmetic mean of the longitudes and of the
\* latitudes of the points.
IsMean(center, points) ==
    /\ ~center.absent
    /\ IsQuotient(center.coord[1], SumOf(points, 1), Len(points))
    /\ IsQuotient(center.coord[2], SumOf(points, 2), Len(points))

\* The outer rings of a MultiPolygon, end to end.
RECURSIVE OuterRings(_)
OuterRings(polygons) ==
    IF polygons = <<>> THEN <<>>
    ELSE (IF Head(polygons) = <<>> THEN <<>> ELSE Head(polygons)[1])
         \o OuterRings(Tail(polygons))

\* C12: get_geometry_center returns the coordinate of a Point, the mean of
\* the outer ring of a Polygon (the ring (0,0),(2,0),(2,2),(0,2) gives
\* (1,1)), the mean over all outer rings end to end of a MultiPolygon, and
\* nothing (without failing) for no geometry, any other kind, a Polygon
\* with an empty ring and a MultiPolygon whose rings are all empty.
C12_GeometryCenter ==
    (call.op = "get_geometry_center" /\ answer.done) =>
        /\ ~answer.raised
        /\ call.geometry.type = "Point" =>
               answer.value = Center(call.geometry.coordinates[1][1][1])
        /\ (call.geometry.type = "Polygon" /\ call.geometry.coordinates[1] # <<>>
             /\ call.geometry.coordinates[1][1] # <<>>) =>
               IsMean(answer.value, call.geometry.coordinates[1][1])
        /\ call.geometry = PolygonGeometry(Square) =>
               answer.value = Center(<< <<10, 1>>, <<10, 1>> >>)
        /\ (call.geometry.type = "MultiPolygon"
             /\ OuterRings(call.geometry.coordinates) # <<>>) =>
               IsMean(answer.value, OuterRings(call.geometry.coordinates))
        /\ (\/ call.geometry.type \notin {"Point", "Polygon", "MultiPolygon"}
            \/ call.geometry.type = "Polygon"
               /\ (call.geometry.coordinates[1] = <<>> \/ call.geometry.coordinates[1][1] = <<>>)
            \/ call.geometry.type = "MultiPolygon"
               /\ OuterRings(call.geometry.coordinates) = <<>>) =>
               answer.value = NoCenter

\* The center of a MultiPolygon of two rings of different lengths has been
\* computed, and it is not the center of the first ring.
C12_Witness ==
    /\ call.op = "get_geometry_center"
    /\ answer.done
    /\ call.geometry.type = "MultiPolygon"
    /\ Len(call.geometry.coordinates) = 2
    /\ call.geometry.coordinates[1][1] = Square
    /\ Len(call.geometry.coordinates[2][1]) = 3
    /\ answer.value = Center(<< <<50, 7>>, <<50, 7>> >>)

\* A Placemark whose Point coordinate text is malformed.
MalformedPoint(pm) == PointRaises(Find(pm.geom, "Point"))

\* The document without its Placemarks of malformed Point text.
WithoutMalformedPoints(doc) ==
    Doc(SelectSeq(doc.placemarks, LAMBDA pm : ~MalformedPoint(pm)))

\* C13: a Placemark whose Point coordinate text is malformed loses only its
\* own geometry: parse_kml does not raise, and it returns the Features of the
\* other Placemarks exactly as if the malformed Placemark were absent
\* (stated for documents whose other Placemarks make nothing raise).
C13_MalformedPoint ==
    (/\ parse_result.done
     /\ document.wellformed
     /\ \E i \in 1..Len(document.placemarks) : MalformedPoint(document.placemarks[i])
     /\ ~parse_kml(WithoutMalformedPoints(document)).raised) =>
        /\ ~parse_result.raised
        /\ parse_result.features = parse_kml(WithoutMalformedPoints(document)).features

\* The Polygon geometries of the Polygons with coordinate text nested in
\* the first MultiGeometry of the Placemark.
NestedPolygons(pm) ==
    IF Find(pm.geom, "MultiGeometry") = NoElement THEN <<>>
    ELSE [i \in 1..Len(SelectSeq(FindAll(Find(pm.geom, "MultiGeometry").children, "Polygon"),
                                  LAMBDA e : Truthy(e.coords))) |->
            PolygonGeometry(parse_coordinates(
                SelectSeq(FindAll(Find(pm.geom, "MultiGeometry").children, "Polygon"),
                          LAMBDA e : Truthy(e.coords))[i].coords))]

\* What each of the four checks produces for the Placemark, in the order
\* of the checks (NoGeometry: the check produces nothing).
Produced(pm) ==
    <<IF HasCoordinates(Find(pm.geom, "Polygon"))
      THEN PolygonGeometry(parse_coordinates(Find(pm.geom, "Polygon").coords))
      ELSE NoGeometry,
      IF HasCoordinates(Find(pm.geom, "Point"))
      THEN PointGeometry(Float(PointParts(Find(pm.geom, "Point"))[1]),
                         Float(PointParts(Find(pm.geom, "Point"))[2]))
      ELSE NoGeometry,
      IF HasCoordinates(Find(pm.geom, "LineString"))
      THEN LineStringGeometry(parse_coordinates(Find(pm.geom, "LineString").coords))
      ELSE NoGeometry,
      IF Len(NestedPolygons(pm)) = 0 THEN NoGeometry
      ELSE IF Len(NestedPolygons(pm)) = 1 THEN NestedPolygons(pm)[1]
      ELSE [type |-> "MultiPolygon",
            coordinates |-> [i \in 1..Len(NestedPolygons(pm)) |->
                                NestedPolygons(pm)[i].coordinates[1]]]>>

\* The geometry of the last check that produces one.
LastProduced(produced) ==
    IF \A i \in 1..Len(produced) : produced[i] = NoGeometry THEN NoGeometry
    ELSE produced[CHOOSE i \in 1..Len(produced) :
                    /\ produced[i] # NoGeometry
                    /\ \A j \in (i + 1)..Len(produced) : produced[j] = NoGeometry]

\* C14: for every combination of constructs in a Placemark the four checks
\* Polygon, Point, LineString, MultiGeometry all run, in that order, and the
\* last one that produces a geometry decides; a MultiGeometry gives a plain
\* Polygon for one nested Polygon, a MultiPolygon of all outer rings in
\* document order for more than one, and leaves the earlier geometry for none.
C14_GeometrySelection ==
    (call.op = "geometry" /\ answer.done) =>
        /\ ~answer.raised
        /\ answer.value = LastProduced(Produced(call.pm))

\* The keys an ExtendedData entry of the Placemark would set.
ExtendedKeys(pm) ==
    {pm.data[i].key : i \in {j \in 1..Len(pm.data) : pm.data[j].has_value}}
    \cup {pm.simple_data[i].key :
             i \in {j \in 1..Len(pm.simple_data) : Truthy(pm.simple_data[j].text)}}

\* C15: ExtendedData entries are used only when the Placemark has no
\* description.  With a description, the properties are the name-derived
\* defaults overridden by the description-derived attributes, and no
\* ExtendedData entry adds a key or overwrites a description-derived value;
\* without one, every ExtendedData entry with a value is copied.
C15_MergeOrder ==
    (call.op = "properties" /\ answer.done) =>
        /\ call.pm.description # <<>> =>
              /\ \A k \in DOMAIN parse_html_description(call.pm.description) :
                    /\ k \in DOMAIN answer.value
                    /\ answer.value[k] = parse_html_description(call.pm.description)[k]
              /\ DOMAIN answer.value \subseteq
                    DOMAIN PropsAfterName(call.pm)
                    \cup DOMAIN parse_html_description(call.pm.description)
                    \cup {"name"}
        /\ call.pm.description = <<>> =>
              ExtendedKeys(call.pm) \subseteq DOMAIN answer.value

\* Whether a row's style attribute marks it as a header row.
HeaderStyle(style) == Contains(style, "font-weight:bold") \/ Contains(style, "text-align:center")

\* The value the map holds for key (None when there is none).
MapValue(data, key) ==
    IF \E i \in 1..Len(data) : data[i][1] = key
    THEN data[CHOOSE i \in 1..Len(data) : data[i][1] = key][2]
    ELSE None

MapKeys(data) == {data[i][1] : i \in 1..Len(data)}

\* What the event e may do to the parser p, giving q, in a row whose start
\* carried the style attribute `style`.
TableStep(p, e, q, style) ==
    /\ e.ev = "data" =>
          /\ q.row_data = (IF p.in_td /\ Strip(e.arg) # ""
                           THEN Append(p.row_data, Strip(e.arg)) ELSE p.row_data)
          /\ q.data = p.data /\ q.owner_from_header = p.owner_from_header
          /\ q.in_td = p.in_td /\ q.in_header_row = p.in_header_row
    /\ (e.ev = "start" /\ e.tag = "td") =>
          /\ q.in_td
          /\ q.row_data = p.row_data /\ q.data = p.data
          /\ q.owner_from_header = p.owner_from_header /\ q.in_header_row = p.in_header_row
    /\ (e.ev = "end" /\ e.tag = "td") =>
          /\ ~q.in_td
          /\ q.row_data = p.row_data /\ q.data = p.data
          /\ q.owner_from_header = p.owner_from_header /\ q.in_header_row = p.in_header_row
    /\ (e.ev = "start" /\ e.tag = "tr") =>
          /\ q.row_data = <<>>
          /\ q.in_header_row = HeaderStyle(e.arg)
          /\ q.data = p.data /\ q.owner_from_header = p.owner_from_header
          /\ q.in_td = p.in_td
    /\ (e.ev = "end" /\ e.tag = "tr") =>
          /\ q.row_data = <<>>
          /\ q.in_td = p.in_td /\ q.in_header_row = p.in_header_row
          /\ Len(p.row_data) = 2 =>
                /\ MapValue(q.data, p.row_data[1]) = p.row_data[2]
                /\ MapKeys(q.data) = MapKeys(p.data) \cup {p.row_data[1]}
                /\ \A k \in MapKeys(p.data) \ {p.row_data[1]} :
                        MapValue(q.data, k) = MapValue(p.data, k)
                /\ q.owner_from_header = p.owner_from_header
          /\ (Len(p.row_data) = 1 /\ HeaderStyle(style)) =>
                q.owner_from_header = p.row_data[1] /\ q.data = p.data
          /\ (Len(p.row_data) \notin {1, 2} \/ (Len(p.row_data) = 1 /\ ~HeaderStyle(style))) =>
                q.owner_from_header = p.owner_from_header /\ q.data = p.data

\* C16: over any sequence of row-start, cell-start, text, cell-end and
\* row-end events, text is collected only inside a cell and only when it is
\* non-empty after trimming; the row buffer is emptied at each row start and
\* row end; a row end with exactly 2 entries records map[entry0] = entry1,
\* with exactly 1 entry in a row whose style has font-weight:bold or
\* text-align:center sets the owner fallback (the last such row wins), and
\* otherwise records nothing; the header flag is recomputed at every row
\* start, so a single-entry row without the style never sets the fallback.
C16_TableParser ==
    (call.op = "feed" /\ call.fed > 0) =>
        TableStep(call.before, call.event, call.p, call.style)

\* A single-entry row without the style has ended after a header row set
\* the owner fallback, and the fallback is still the header row's.
C16_Witness ==
    /\ call.op = "feed"
    /\ call.event = EndEvent("tr")
    /\ ~HeaderStyle(call.style)
    /\ Len(call.before.row_data) = 1
    /\ call.before.owner_from_header = "Jane Doe"
    /\ call.before.row_data[1] = "Owner"
    /\ call.p.owner_from_header = "Jane Doe"

\* The canonical key of an extracted key: its alias-table entry, or itself.
Canonical(key) == IF key \in DOMAIN key_mapping THEN key_mapping[key] ELSE key

\* The rows whose key is replaced by the canonical key c.
RowsOf(items, c) == {i \in 1..Len(items) : Canonical(items[i][1]) = c}

\* C17: get_properties replaces every extracted key found in the alias
\* table by its canonical key and passes every other key through, each with
\* the value of a row of that key ({Owner: Jane Doe, GISAcres: 12.5} becomes
\* {Owner: Jane Doe, Acres: 12.5}); the owner fallback is applied after the
\* mapping and sets Owner only when no key was mapped to Owner.
C17_KeyNormalizer ==
    (call.op = "get_properties" /\ answer.done) =>
        /\ DOMAIN answer.value =
              {Canonical(call.p.data[i][1]) : i \in 1..Len(call.p.data)}
              \cup (IF Truthy(call.p.owner_from_header) THEN {"Owner"} ELSE {})
        /\ \A c \in DOMAIN answer.value :
              IF RowsOf(call.p.data, c) # {}
              THEN \E i \in RowsOf(call.p.data, c) : answer.value[c] = call.p.data[i][2]
              ELSE c = "Owner" /\ answer.value[c] = call.p.owner_from_header
        /\ call.p.data = << <<"Owner", "Jane Doe">>, <<"GISAcres", "12.5">> >> =>
              answer.value = [Owner |-> "Jane Doe", Acres |-> "12.5"]

\* A header row gave an owner, a row keyed OWNER gave another, and the
\* keyed one is the Owner.
C17_Witness ==
    /\ call.op = "get_properties"
    /\ answer.done
    /\ call.p.owner_from_header = "ROE JOHN & MARY"
    /\ call.p.data = << <<"Zoning", "R1">>, <<"OWNER", "TOWN OF DIXMONT">> >>
    /\ answer.value = [Zoning |-> "R1", Owner |-> "TOWN OF DIXMONT"]

\* C18: at the end of every completed resolution pass parcel_count is the
\* number of features the pass returned: 0 when the pass ends with source
\* none, and the cache file's count on a fast-path return.
C18_ParcelCount ==
    \A t \in Threads :
        (pc[t] = "done" /\ result[t].status = "returned") =>
            data_source_info.parcel_count = Len(result[t].features)

\* The messages a failed remote fetch records.
RemoteErrors == {RemoteError(fetch.response) : fetch \in {f \in Fetches : f.fetched = <<>>}}

\* C19: at the end of every completed resolution pass the error is absent
\* exactly when the source is remote; with source local or cached it is the
\* message of the failed remote fetch, with source none it is "No data
\* source available".
C19_ErrorIffNotRemote ==
    \A t \in Threads :
        (pc[t] = "done" /\ result[t].status = "returned") =>
            /\ data_source_info.error = None <=> data_source_info.source = "remote"
            /\ data_source_info.source \in {"local", "cached"} =>
                  data_source_info.error \in RemoteErrors
            /\ data_source_info.source = "none" =>
                  data_source_info.error = "No data source available"
            /\ data_source_info.source \in {"remote", "local", "cached", "none"}

\* A pass has ended with a local load, and the error still is the timeout
\* of its remote fetch.
C19_Witness ==
    \E t \in Threads :
        /\ pc[t] = "done"
        /\ result[t].status = "returned"
        /\ pass[t].local_ok
        /\ data_source_info.source = "local"
        /\ data_source_info.error = "Remote KMZ fetch timed out"

\* C20: a request that finds no cache file runs the whole chain, beginning
\* with a remote fetch attempt, whatever the source is; so without a refresh
\* a source none, or remote or local after a failed cache write, is decided
\* again by the next request.
C20_NoFileNoFastPath ==
    [][\A t \in Threads :
        /\ (pc[t] = "check" /\ pc'[t] # "check" /\ ~Exists) =>
              /\ pc'[t] = "fetch"
              /\ ~pass'[t].fast
              /\ data_source_info' = data_source_info
        /\ (pc[t] = "fetch" /\ pc'[t] # "fetch") =>
              /\ pass'[t].fetched
              /\ pc'[t] \in {"cache_remote", "local"}]_vars

\* A request that is no refresh has found the source none and no cache
\* file, has attempted the remote fetch, and its next step can make the
\* source local.
C20_Witness ==
    \E t \in Threads :
        /\ route[t] = "load"
        /\ pc[t] = "local"
        /\ pass[t].fetched
        /\ ~Exists
        /\ data_source_info.source = "none"
        /\ ENABLED (ScanLocal(t) /\ data_source_info'.source = "local")

====
